---- MODULE Spec2Model ----
(***************************************************************************)
(* Model of the aifx trading-analysis application: the /api/analyze        *)
(* handler of the three server revisions (src/server.js,                   *)
(* src/unnamed/part_000, src/unnamed/part_001), calculateSMA,              *)
(* getTimeframeInSeconds, calculateIndicators with the prompt built from   *)
(* it, and the chart overlay of the browser clients (displayChartData).    *)
(*                                                                         *)
(* Conventions.                                                            *)
(*  - Prices are fixed-point integers in units of 10^-4, so that           *)
(*    toFixed(4) is rounding to the nearest unit (ties upwards).           *)
(*  - A JavaScript value is a record [type, num, str]; an object parsed    *)
(*    from JSON additionally carries props, a function from its keys to    *)
(*    atomic values.                                                       *)
(*  - A text (the completion text) is a sequence of lexical tokens; the    *)
(*    string operations indexOf, lastIndexOf and substring keep their      *)
(*    0-based JavaScript semantics over token positions.                   *)
(***************************************************************************)
EXTENDS Integers, Sequences, FiniteSets, TLC

\* ------------------------------------------------------------- bounds
\* longest candle sequence handed to calculateSMA / the chart
MaxCandles == 3
\* largest SMA period tried on calculateSMA
MaxPeriod == 3
\* largest price (units of 10^-4) of a generated candle
MaxPrice == 2
\* longest prose prefix / suffix around the body of a completion text
MaxAffix == 1
\* longest candle list in a reply of the candle source
MaxFetched == 2
\* most digits of a timeframe label handed to getTimeframeInSeconds
MaxDigits == 2
\* longest candle list the indicators and the prompt are computed on
MaxSeries == 201

\* ------------------------------------------------------------- program constants
\* period of the SMA attached by getMarketData (part_001)
SMA_PERIOD == 20

VARIABLES
    \* calculateSMA applied as a pure function
    smaCandles, smaPeriod, smaOut, smaPc,
    \* displayChartData of the browser clients
    client, marketData, smaLine, bbLines, chartPc,
    \* one POST /api/analyze request
    variant, pc, req, candles, text, parseCall, res, steps,
    \* what the request received and built on its way: the message of the candle source, the
    \* indicators, the outcome of the events lookup, the prompt, the completion reply
    data, indicators, events, prompt, aiResult,
    \* getTimeframeInSeconds applied as a pure function
    tfLabel, tfOut, tfPc,
    \* several POST /api/analyze requests in flight on one server: each invocation of the
    \* handler, and the bindings of its const candles
    handlers, closure,
    \* loadAssets of the browser clients: the page elements it writes, its promise, its
    \* socket and timer, and the messages the socket delivered
    loadClient, assetSelect, analyzeBtn, messageBox, loadPromise, derivSocket, timeoutId, handled,
    \* the click handler of the Analyze button: the page elements it writes, the click whose
    \* recommendation and chart are on the page, the requests in flight, the clicks so far
    clickClient, loader, resultsContent, errorMessage, shown, pending, clicks,
    \* the setTimeout retries of displayChartData that are still to run
    retries

smaVars == <<smaCandles, smaPeriod, smaOut, smaPc>>
chartVars == <<client, marketData, smaLine, bbLines, chartPc>>
reqVars == <<variant, pc, req, candles, text, parseCall, res, steps,
             data, indicators, events, prompt, aiResult>>
tfVars == <<tfLabel, tfOut, tfPc>>
concVars == <<handlers, closure>>
loadVars == <<loadClient, assetSelect, analyzeBtn, messageBox, loadPromise, derivSocket,
              timeoutId, handled>>
clickVars == <<clickClient, loader, resultsContent, errorMessage, shown, pending, clicks,
               retries>>
vars == <<smaCandles, smaPeriod, smaOut, smaPc,
          client, marketData, smaLine, bbLines, chartPc,
          variant, pc, req, candles, text, parseCall, res, steps,
          data, indicators, events, prompt, aiResult,
          tfLabel, tfOut, tfPc,
          handlers, closure,
          loadClient, assetSelect, analyzeBtn, messageBox, loadPromise, derivSocket,
          timeoutId, handled,
          clickClient, loader, resultsContent, errorMessage, shown, pending, clicks,
          retries>>

\* ------------------------------------------------------------- JavaScript values
JsUndefined == [type |-> "undefined", num |-> 0, str |-> ""]
JsNull == [type |-> "null", num |-> 0, str |-> ""]
JsNum(n) == [type |-> "number", num |-> n, str |-> ""]
JsStr(s) == [type |-> "string", num |-> 0, str |-> s]

\* sequences over S of length lo..hi
SeqsOf(S, lo, hi) == UNION {[1..n -> S] : n \in lo..hi}

RECURSIVE SumCloses(_)
SumCloses(cs) == IF cs = <<>> THEN 0 ELSE Head(cs).close + SumCloses(Tail(cs))

\* Array.prototype.slice(begin, end) for 0 <= begin <= end (0-based, end exclusive)
Slice(arr, begin, end) ==
    LET e == IF end > Len(arr) THEN Len(arr) ELSE end
    IN  IF begin >= e THEN <<>> ELSE SubSeq(arr, begin + 1, e)

\* parseFloat((sum / period).toFixed(4)) on fixed-point prices: the nearest unit; toFixed
\* takes the larger neighbour on an exact tie (ECMA-262 21.1.3.3)
ToFixed4(sum, period) == (2 * sum + period) \div (2 * period)

\* ------------------------------------------------------------- calculateSMA
\* the same with the warm-up one candle too long (index >= period)
calculateSMA_LateStart(cs, period) ==
    [i \in 1..Len(cs) |->
        LET index == i - 1
            c == cs[i]
        IN  IF index >= period
            THEN [epoch |-> c.epoch, open |-> c.open, high |-> c.high, low |-> c.low,
                  close |-> c.close,
                  sma |-> JsNum(ToFixed4(SumCloses(Slice(cs, index - period + 1, index + 1)), period))]
            ELSE [epoch |-> c.epoch, open |-> c.open, high |-> c.high, low |-> c.low,
                  close |-> c.close, sma |-> JsNull]]

calculateSMA(cs, period) ==
    [i \in 1..Len(cs) |->
        LET index == i - 1
            c == cs[i]
        IN  IF index >= period - 1
            THEN [epoch |-> c.epoch, open |-> c.open, high |-> c.high, low |-> c.low,
                  close |-> c.close,
                  sma |-> JsNum(ToFixed4(SumCloses(Slice(cs, index - period + 1, index + 1)), period))]
            ELSE [epoch |-> c.epoch, open |-> c.open, high |-> c.high, low |-> c.low,
                  close |-> c.close, sma |-> JsNull]]

\* candles as the candle source delivers them: epoch, open, high, low, close
Prices == 1..MaxPrice
Max2(a, b) == IF a >= b THEN a ELSE b
Min2(a, b) == IF a <= b THEN a ELSE b
Candle(e, o, c) == [epoch |-> e, open |-> o, high |-> Max2(o, c), low |-> Min2(o, c), close |-> c]
CandleSeqs ==
    UNION {{[i \in 1..n |-> Candle(60 * i, oc[i][1], oc[i][2])] :
                oc \in [1..n -> Prices \X Prices]} : n \in 1..MaxCandles}

\* ------------------------------------------------------------- calculateSMA as a pure function
CallCalculateSMA ==
    /\ smaPc = "ready"
    /\ smaOut' = calculateSMA(smaCandles, smaPeriod)
    /\ smaPc' = "done"
    /\ UNCHANGED <<smaCandles, smaPeriod>>
    /\ UNCHANGED <<chartVars, reqVars, tfVars, concVars, loadVars, clickVars>>

NextSMA == CallCalculateSMA

\* ------------------------------------------------------------- displayChartData
\* the three browser clients that draw the overlay
Clients == {"script_js_132", "script_js_367", "server_js_474"}

\* marketData.candles as the server sends them: time, open, high, low, close
ChartCandles(n) == [i \in 1..n |-> [time |-> 60 * i, open |-> 1, high |-> 2, low |-> 1, close |-> 2]]
\* an SMA(50) series and a Bollinger series of length m, every element different
SmaSeries(m) == [j \in 1..m |-> 100 + j]
BollingerSeries(m) == [j \in 1..m |-> [upper |-> 300 + j, middle |-> 200 + j, lower |-> 100 + j]]

\* candles.map((candle, index) => ({time, value: sma50[index]})).filter(typeof value === 'number')
smaData_ByIndex(md) ==
    LET n == IF Len(md.sma50) < Len(md.candles) THEN Len(md.sma50) ELSE Len(md.candles)
    IN  [index \in 1..n |-> [time |-> md.candles[index].time, value |-> md.sma50[index]]]

\* sma50.map((sma, index) => ({time: formattedCandles[length - sma50.length + index].time, value: sma}))
smaData_ByOffset(md) ==
    [index \in 1..Len(md.sma50) |->
        [time |-> md.candles[Len(md.candles) - Len(md.sma50) + index].time,
         value |-> md.sma50[index]]]

\* candles.map((candle, index) => ({time, ...bollingerBands[index]})).filter(all three numeric)
bbData_ByIndex(md) ==
    LET n == IF Len(md.bollingerBands) < Len(md.candles)
             THEN Len(md.bollingerBands) ELSE Len(md.candles)
    IN  [index \in 1..n |->
            [time |-> md.candles[index].time,
             upper |-> md.bollingerBands[index].upper,
             middle |-> md.bollingerBands[index].middle,
             lower |-> md.bollingerBands[index].lower]]

\* bollingerBands.map((bb, index) => ({time: formattedCandles[length - bb.length + index].time, ...}))
bbData_ByOffset(md) ==
    [index \in 1..Len(md.bollingerBands) |->
        [time |-> md.candles[Len(md.candles) - Len(md.bollingerBands) + index].time,
         upper |-> md.bollingerBands[index].upper,
         middle |-> md.bollingerBands[index].middle,
         lower |-> md.bollingerBands[index].lower]]

\* the three line series set from bbData: upper, middle, lower
BandLines(bb) ==
    [upper |-> [j \in 1..Len(bb) |-> [time |-> bb[j].time, value |-> bb[j].upper]],
     middle |-> [j \in 1..Len(bb) |-> [time |-> bb[j].time, value |-> bb[j].middle]],
     lower |-> [j \in 1..Len(bb) |-> [time |-> bb[j].time, value |-> bb[j].lower]]]

NoBandLines == [upper |-> <<>>, middle |-> <<>>, lower |-> <<>>]

\* the overlay part of displayChartData, once the chart and the candlestick series exist
displayChartData ==
    /\ chartPc = "received"
    /\ smaLine' = IF Len(marketData.sma50) > 0
                  THEN IF client = "script_js_367"
                       THEN smaData_ByOffset(marketData)
                       ELSE smaData_ByIndex(marketData)
                  ELSE <<>>
    /\ bbLines' = IF Len(marketData.bollingerBands) > 0
                  THEN IF client = "script_js_367"
                       THEN BandLines(bbData_ByOffset(marketData))
                       ELSE BandLines(bbData_ByIndex(marketData))
                  ELSE NoBandLines
    /\ chartPc' = "drawn"
    /\ UNCHANGED <<client, marketData>>
    /\ UNCHANGED <<smaVars, reqVars, tfVars, concVars, loadVars, clickVars>>

NextChart == displayChartData

\* ------------------------------------------------------------- texts and String operations
\* a lexical token: punctuation, a prose word, a code fence, a JSON literal, or an object
\* member "key": value
Tk(c) == [c |-> c, k |-> "", v |-> JsUndefined]
LBrace == Tk("{")
RBrace == Tk("}")
Comma == Tk(",")
Prose == Tk("prose")
Fence == Tk("fence")
Lit(v) == [c |-> "literal", k |-> "", v |-> v]
Member(k, v) == [c |-> "member", k |-> k, v |-> v]

\* String.prototype.indexOf(ch): 0-based position of the first ch, -1 when there is none
indexOf(s, ch) ==
    IF \E i \in 1..Len(s) : s[i] = ch
    THEN (CHOOSE i \in 1..Len(s) : s[i] = ch /\ \A j \in 1..(i - 1) : s[j] # ch) - 1
    ELSE -1

\* String.prototype.lastIndexOf(ch): 0-based position of the last ch, -1 when there is none
lastIndexOf(s, ch) ==
    IF \E i \in 1..Len(s) : s[i] = ch
    THEN (CHOOSE i \in 1..Len(s) : s[i] = ch /\ \A j \in (i + 1)..Len(s) : s[j] # ch) - 1
    ELSE -1

\* String.prototype.substring(start, end): both arguments are clamped to 0..length and
\* swapped when start > end (ECMA-262 22.1.3.25)
Clamp(n, len) == IF n < 0 THEN 0 ELSE IF n > len THEN len ELSE n
substring(s, start, end) ==
    LET a == Clamp(start, Len(s))
        b == Clamp(end, Len(s))
        from == Min2(a, b)
        to == Max2(a, b)
    IN  SubSeq(s, from + 1, to)

\* ------------------------------------------------------------- JSON.parse
\* the value of a parsed object: its own properties as key/value pairs; of a repeated key
\* the last occurrence wins
ObjectValue(members) ==
    [type |-> "object", num |-> 0, str |-> "",
     props |-> {[k |-> members[i].k, v |-> members[i].v] :
                    i \in {i \in 1..Len(members) :
                              \A j \in (i + 1)..Len(members) : members[j].k # members[i].k}}]
AtomValue(v) == [type |-> v.type, num |-> v.num, str |-> v.str, props |-> {}]
NoValue == AtomValue(JsUndefined)

\* an error message; a SyntaxError of JSON.parse names the offending token and its position
Err(msg) == [msg |-> msg, token |-> "", position |-> -1]
NoError == Err("")
UnexpectedEnd == Err("SyntaxError: Unexpected end of JSON input")
UnexpectedToken(s, i) ==
    [msg |-> "SyntaxError: Unexpected token in JSON at position", token |-> s[i].c,
     position |-> i - 1]
ParseFailure(e) == [ok |-> FALSE, value |-> NoValue, error |-> e]

\* the members of an object from token i on; expect is what the grammar allows next:
\* "first" (a member or the closing brace), "member", or "next" (a comma or the closing brace)
RECURSIVE ScanObject(_, _, _, _)
ScanObject(s, i, expect, members) ==
    IF i > Len(s) THEN ParseFailure(UnexpectedEnd)
    ELSE IF s[i] = RBrace /\ expect \in {"first", "next"}
    THEN IF i = Len(s)
         THEN [ok |-> TRUE, value |-> ObjectValue(members), error |-> NoError]
         ELSE ParseFailure(UnexpectedToken(s, i + 1))
    ELSE IF s[i].c = "member" /\ expect \in {"first", "member"}
    THEN ScanObject(s, i + 1, "next", Append(members, s[i]))
    ELSE IF s[i] = Comma /\ expect = "next"
    THEN ScanObject(s, i + 1, "member", members)
    ELSE ParseFailure(UnexpectedToken(s, i))

\* JSON.parse(s): ok and the value, or the SyntaxError it throws
JSON_parse(s) ==
    IF s = <<>> THEN ParseFailure(UnexpectedEnd)
    ELSE IF s[1].c = "literal"
    THEN IF Len(s) = 1
         THEN [ok |-> TRUE, value |-> AtomValue(s[1].v), error |-> NoError]
         ELSE ParseFailure(UnexpectedToken(s, 2))
    ELSE IF s[1] = LBrace THEN ScanObject(s, 2, "first", <<>>)
    ELSE ParseFailure(UnexpectedToken(s, 1))

\* ------------------------------------------------------------- completion texts
NumericStrings == {"1.2345"}
EntryValues == {JsNum(12345), JsStr("1.2345"), JsStr("abc")}
\* the members of a generated object: entryPoint in one of its forms or absent, stopLoss,
\* takeProfit or not, and rationale, an unknown extra key, or neither
MemberLists ==
    {e \o <<Member("stopLoss", JsNum(12000))>> \o t \o o :
        e \in {<<>>} \cup {<<Member("entryPoint", v)>> : v \in EntryValues},
        t \in {<<>>, <<Member("takeProfit", JsNum(13000))>>},
        o \in {<<>>, <<Member("rationale", JsStr("buy"))>>, <<Member("riskReward", JsNum(15000))>>}}

RECURSIVE JoinMembers(_)
JoinMembers(ms) ==
    IF Len(ms) <= 1 THEN ms ELSE <<Head(ms), Comma>> \o JoinMembers(Tail(ms))

Bodies ==
    {<<LBrace>> \o JoinMembers(ms) \o <<RBrace>> : ms \in MemberLists}
    \cup {<<>>, <<Lit(JsNum(1))>>, <<LBrace, RBrace>>, <<LBrace, Prose, RBrace>>}

Affixes == SeqsOf({Prose, LBrace, RBrace}, 0, MaxAffix)

\* prose, then the body (inside a code fence or bare), then prose
CompletionTexts ==
    {pre \o (IF fenced THEN <<Fence>> \o body \o <<Fence>> ELSE body) \o post :
        pre \in Affixes, post \in Affixes, fenced \in BOOLEAN, body \in Bodies}

\* ------------------------------------------------------------- getTimeframeInSeconds
\* a request field: absent (undefined) or a string, kept as its characters
Absent == [type |-> "undefined", chars |-> <<>>]
Str(chars) == [type |-> "string", chars |-> chars]
\* !field: undefined and the empty string are falsy
Falsy(f) == f.type = "undefined" \/ f.chars = <<>>

Digits == {"0", "1", "2", "3", "4", "5", "6", "7", "8", "9"}
DigitValue(ch) ==
    CASE ch = "0" -> 0 [] ch = "1" -> 1 [] ch = "2" -> 2 [] ch = "3" -> 3 [] ch = "4" -> 4
      [] ch = "5" -> 5 [] ch = "6" -> 6 [] ch = "7" -> 7 [] ch = "8" -> 8 [] ch = "9" -> 9
toLowerCase(ch) ==
    CASE ch = "M" -> "m" [] ch = "H" -> "h" [] ch = "D" -> "d" [] OTHER -> ch

JsNaN == [type |-> "number", num |-> 0, str |-> "NaN"]

\* parseInt(chars): the value of the longest prefix of digits, NaN when it is empty
RECURSIVE DigitsValue(_, _)
DigitsValue(chars, acc) ==
    IF chars = <<>> \/ Head(chars) \notin Digits THEN acc
    ELSE DigitsValue(Tail(chars), 10 * acc + DigitValue(Head(chars)))
parseInt(chars) ==
    IF chars = <<>> \/ Head(chars) \notin Digits THEN JsNaN ELSE JsNum(DigitsValue(chars, 0))

Times(v, n) == IF v = JsNaN THEN JsNaN ELSE JsNum(v.num * n)

\* the same matching the unit as it is written, without toLowerCase
getTimeframeInSeconds_CaseSensitive(timeframe) ==
    IF timeframe.type = "undefined" THEN [threw |-> TRUE, value |-> JsUndefined]
    ELSE LET n == Len(timeframe.chars)
             unit == IF n = 0 THEN "" ELSE timeframe.chars[n]
             value == parseInt(SubSeq(timeframe.chars, 1, n - 1))
         IN  [threw |-> FALSE,
              value |-> CASE unit = "m" -> Times(value, 60)
                          [] unit = "h" -> Times(value, 3600)
                          [] unit = "d" -> Times(value, 24 * 3600)
                          [] OTHER -> JsNum(60)]

\* timeframe.slice(-1) and timeframe.slice(0, -1) throw a TypeError on undefined
getTimeframeInSeconds(timeframe) ==
    IF timeframe.type = "undefined" THEN [threw |-> TRUE, value |-> JsUndefined]
    ELSE LET n == Len(timeframe.chars)
             unit == IF n = 0 THEN "" ELSE toLowerCase(timeframe.chars[n])
             value == parseInt(SubSeq(timeframe.chars, 1, n - 1))
         IN  [threw |-> FALSE,
              value |-> CASE unit = "m" -> Times(value, 60)
                          [] unit = "h" -> Times(value, 3600)
                          [] unit = "d" -> Times(value, 24 * 3600)
                          [] OTHER -> JsNum(60)]

\* ------------------------------------------------------------- calculateIndicators
\* periods of the indicators and the length of the prompt's tail slices
SMA50_PERIOD == 50
BB_PERIOD == 20
BB_STDDEV == 2
RSI_PERIOD == 14
MACD_SLOW_PERIOD == 26
RECENT == 50

\* values[lo] + ... + values[hi] (1-based, inclusive)
RECURSIVE SumValues(_, _, _)
SumValues(values, lo, hi) ==
    IF lo > hi THEN 0 ELSE values[hi] + SumValues(values, lo, hi - 1)

\* the exact quotient sum / period (the library does not round)
Mean(sum, period) == [sum |-> sum, period |-> period]

\* the number of full windows of period values in n values
Windows(n, period) == IF n >= period THEN n - period + 1 ELSE 0

\* SMA.calculate({ period, values }) of technicalindicators: one mean for each full window
\* of period values, oldest first; no value while fewer than period values were seen
SMA_calculate(period, values) ==
    [j \in 1..Windows(Len(values), period) |->
        Mean(SumValues(values, j, j + period - 1), period)]

\* BollingerBands.calculate({ period, stdDev, values }): for each full window its mean and
\* the mean plus and minus stdDev standard deviations of the window (kept symbolic)
BollingerBands_calculate(period, stdDev, values) ==
    [j \in 1..Windows(Len(values), period) |->
        LET m == Mean(SumValues(values, j, j + period - 1), period)
        IN  [middle |-> m,
             upper |-> [middle |-> m, deviations |-> stdDev, window |-> j],
             lower |-> [middle |-> m, deviations |-> 0 - stdDev, window |-> j]]]

\* RSI.calculate({ period, values }): one value for each close after the first period closes;
\* MACD.calculate: one value from the close that completes the slow average on (symbolic)
RSI_calculate(period, values) ==
    [j \in 1..Windows(Len(values), period + 1) |-> [rsi |-> j]]
MACD_calculate(slowPeriod, values) ==
    [j \in 1..Windows(Len(values), slowPeriod) |-> [macd |-> j]]

\* candles.map(c => c.close)
Closes(cs) == [i \in 1..Len(cs) |-> cs[i].close]

NoIndicators == [sma50 |-> <<>>, bollingerBands |-> <<>>]

\* the same averaging the closes there are while they are fewer than the period
calculateIndicators_ShortWindow(v, cs) ==
    LET closes == Closes(cs)
        sma50 == SMA_calculate(Min2(SMA50_PERIOD, Len(cs)), closes)
        bollingerBands ==
            BollingerBands_calculate(Min2(BB_PERIOD, Len(cs)), BB_STDDEV, closes)
    IN  IF v = "server_js"
        THEN [sma50 |-> sma50,
              rsi |-> RSI_calculate(RSI_PERIOD, closes),
              macd |-> MACD_calculate(MACD_SLOW_PERIOD, closes),
              bollingerBands |-> bollingerBands]
        ELSE [sma50 |-> sma50, bollingerBands |-> bollingerBands]

\* calculateIndicators(candles) of server.js and of part_000
calculateIndicators(v, cs) ==
    IF v = "server_js"
    THEN [sma50 |-> SMA_calculate(SMA50_PERIOD, Closes(cs)),
          rsi |-> RSI_calculate(RSI_PERIOD, Closes(cs)),
          macd |-> MACD_calculate(MACD_SLOW_PERIOD, Closes(cs)),
          bollingerBands |-> BollingerBands_calculate(BB_PERIOD, BB_STDDEV, Closes(cs))]
    ELSE IF Len(cs) < SMA50_PERIOD
    THEN [sma50 |-> <<>>, bollingerBands |-> <<>>]
    ELSE [sma50 |-> SMA_calculate(SMA50_PERIOD, Closes(cs)),
          bollingerBands |-> IF Len(cs) >= BB_PERIOD
                             THEN BollingerBands_calculate(BB_PERIOD, BB_STDDEV, Closes(cs))
                             ELSE <<>>]

\* ------------------------------------------------------------- the prompt
\* arr.slice(-k): the last k elements, all of them when there are fewer
SliceLast(arr, k) == IF Len(arr) <= k THEN arr ELSE SubSeq(arr, Len(arr) - k + 1, Len(arr))

\* ${x} in a template literal: the text of a value, 'undefined' for undefined, and the
\* literal 'N/A' of the prompt
NA == [text |-> "N/A", of |-> <<>>]
Undefined == [text |-> "undefined", of |-> <<>>]
TextOf(x) == [text |-> "value", of |-> <<x>>]
\* ${arr[arr.length - 1]}
LastText(arr) == IF Len(arr) = 0 THEN Undefined ELSE TextOf(arr[Len(arr)])

NoPrompt == [built |-> FALSE]

\* server.js: the last 50 candles as {o, h, l, c, t}, the last 50 values of each indicator
\* and the upcoming events, each through JSON.stringify
Prompt_server(request, cs, ind, upcomingEvents) ==
    [built |-> TRUE, asset |-> request.asset, timeframe |-> request.timeframe,
     recentCandles |-> [i \in 1..Len(SliceLast(cs, RECENT)) |->
                           LET c == SliceLast(cs, RECENT)[i]
                           IN  [o |-> c.open, h |-> c.high, l |-> c.low, c |-> c.close,
                                t |-> c.epoch]],
     sma50 |-> SliceLast(ind.sma50, RECENT),
     rsi |-> SliceLast(ind.rsi, RECENT),
     macd |-> SliceLast(ind.macd, RECENT),
     bollingerBands |-> SliceLast(ind.bollingerBands, RECENT),
     upcomingEvents |-> upcomingEvents]

\* part_000: the latest candle, the last 50 closes, the last SMA(50) value and the last
\* Bollinger values; indicators.sma50 is an array, and every array is truthy
Prompt_000(request, cs, ind) ==
    LET bb == ind.bollingerBands
    IN  [built |-> TRUE, asset |-> request.asset, timeframe |-> request.timeframe,
         latestCandle |-> cs[Len(cs)],
         last50Closes |-> Closes(SliceLast(cs, RECENT)),
         sma50 |-> LastText(ind.sma50),
         upper |-> IF Len(bb) > 0 THEN TextOf(bb[Len(bb)].upper) ELSE NA,
         middle |-> IF Len(bb) > 0 THEN TextOf(bb[Len(bb)].middle) ELSE NA,
         lower |-> IF Len(bb) > 0 THEN TextOf(bb[Len(bb)].lower) ELSE NA]

\* part_001: JSON.stringify(marketDataWithIndicators), every candle with its sma
Prompt_001(request, cs) ==
    [built |-> TRUE, asset |-> request.asset, timeframe |-> request.timeframe, data |-> cs]

\* ------------------------------------------------------------- POST /api/analyze
Variants == {"server_js", "part_000", "part_001"}

MSG_REQUIRED == "Asset and timeframe are required."
MSG_NO_CANDLES_404 == "No candle data found for the selected asset and timeframe."
MSG_NO_CANDLES_SERVER == "No candle data returned for ${asset}."
MSG_NO_CANDLES_001 == "No candle data returned for asset ${asset} and timeframe."
MSG_UPSTREAM == "data.error.message"
MSG_WEBSOCKET == "WebSocket error: "
MSG_WEBSOCKET_000 == "WebSocket error fetching candle data: "
MSG_TRANSPORT == "completion request rejected"
MSG_STATUS == "Gemini API request failed with status"
MSG_TYPE_ERROR == "TypeError: Cannot read properties of undefined"
MSG_INVALID_000 == "Invalid or empty response structure from Gemini API. Check console for full AI result."
MSG_INVALID_001 == "Invalid response structure from Gemini API."
MSG_NO_JSON_000 == "Could not find a valid JSON object in the AI response text. Check console for AI text."
MSG_NO_JSON_001 == "Could not find a valid JSON object in the AI response."
MSG_PARSE_001 == "Could not parse the JSON analysis from the AI response."

NoMarketData == [present |-> FALSE, candles |-> <<>>]
NoResponse == [status |-> 0, error |-> NoError, analysis |-> NoValue, marketData |-> NoMarketData]
\* res.status(n).json({ error })
ErrorResponse(n, e) ==
    [status |-> n, error |-> e, analysis |-> NoValue, marketData |-> NoMarketData]
\* the same with high and low taken from each other
ChartCandlesOf_HighLowSwapped(cs) ==
    [i \in 1..Len(cs) |-> [time |-> cs[i].epoch, open |-> cs[i].open, high |-> cs[i].low,
                           low |-> cs[i].high, close |-> cs[i].close]]

\* candles.map(c => ({ time: c.epoch, open, high, low, close }))
ChartCandlesOf(cs) ==
    [i \in 1..Len(cs) |-> [time |-> cs[i].epoch, open |-> cs[i].open, high |-> cs[i].high,
                           low |-> cs[i].low, close |-> cs[i].close]]
\* the same answering with the required keys only
SuccessResponse_RequiredOnly(v, analysis, cs) ==
    [status |-> 200, error |-> NoError,
     analysis |-> [type |-> analysis.type, num |-> analysis.num, str |-> analysis.str,
                   props |-> {p \in analysis.props :
                                 p.k \in {"entryPoint", "stopLoss", "takeProfit"}}],
     marketData |-> IF v = "part_001" THEN NoMarketData
                    ELSE [present |-> TRUE, candles |-> ChartCandlesOf(cs)]]

\* res.json({ analysis, marketData }) of server.js and part_000; res.json(analysis) of part_001
SuccessResponse(v, analysis, cs) ==
    [status |-> 200, error |-> NoError, analysis |-> analysis,
     marketData |-> IF v = "part_001" THEN NoMarketData
                    ELSE [present |-> TRUE, candles |-> ChartCandlesOf(cs)]]

\* the candidate string: responseText.substring(jsonStartIndex, jsonEndIndex + 1)
jsonString(responseText) ==
    substring(responseText, indexOf(responseText, LBrace), lastIndexOf(responseText, RBrace) + 1)

\* part_000 and part_001 throw when either index is -1; server.js has no such test
NoJsonFound(v, responseText) ==
    /\ v # "server_js"
    /\ indexOf(responseText, LBrace) = -1 \/ lastIndexOf(responseText, RBrace) = -1

\* the extraction of the handler, from responseText to the response it sends
ExtractionResponse(v, responseText, cs) ==
    IF NoJsonFound(v, responseText)
    THEN ErrorResponse(500, Err(IF v = "part_000" THEN MSG_NO_JSON_000 ELSE MSG_NO_JSON_001))
    ELSE LET parsed == JSON_parse(jsonString(responseText))
         IN  IF parsed.ok
             THEN SuccessResponse(v, parsed.value, cs)
             ELSE ErrorResponse(500, IF v = "part_001" THEN Err(MSG_PARSE_001) ELSE parsed.error)

\* ------------------------------------------------------------- the candle source
\* .sort((a, b) => a.epoch - b.epoch): a list already in order is its own sorting;
\* Array.prototype.sort is stable, so otherwise the place of a candle is one more than the
\* number of candles that come before it (a smaller epoch, or the same epoch and an
\* earlier index)
SortByEpoch(cs) ==
    LET Before(j, i) == cs[j].epoch < cs[i].epoch \/ (cs[j].epoch = cs[i].epoch /\ j < i)
        place == [i \in 1..Len(cs) |-> 1 + Cardinality({j \in 1..Len(cs) : Before(j, i)})]
    IN  IF \A i \in 1..(Len(cs) - 1) : cs[i].epoch <= cs[i + 1].epoch
        THEN cs
        ELSE [k \in 1..Len(cs) |-> cs[CHOOSE i \in 1..Len(cs) : place[i] = k]]

\* the candle lists of a candles message, in every order of arrival
FetchedLists ==
    UNION {{[i \in 1..n |-> Candle(60 * order[i], 1, 2)] :
                order \in {f \in [1..n -> 1..n] : \A i, j \in 1..n : f[i] = f[j] => i = j}} :
           n \in 0..MaxFetched}

\* the first message of the candle source: an error envelope, a candles message (with or
\* without its list), or a message of another type
CandleReplies ==
    {[kind |-> "error", hasCandles |-> FALSE, candles |-> <<>>],
     [kind |-> "other", hasCandles |-> FALSE, candles |-> <<>>],
     [kind |-> "candles", hasCandles |-> FALSE, candles |-> <<>>]}
    \cup {[kind |-> "candles", hasCandles |-> TRUE, candles |-> cs] : cs \in FetchedLists}

\* the answer of the completion service: the call rejects, a non-success status, an
\* envelope without candidates[0].content.parts[0].text, or a text
CompletionReplies ==
    {[kind |-> k, text |-> <<>>] : k \in {"rejected", "not_ok", "no_text"}}
    \cup {[kind |-> "text", text |-> t] : t \in CompletionTexts}

Requests ==
    {[asset |-> a, timeframe |-> t] :
        a \in {Absent, Str(<<>>), Str(<<"R", "_", "1", "0", "0">>)},
        t \in {Absent, Str(<<>>), Str(<<"1", "H">>)}}

\* the outcome of the economicCalendar call of getEconomicEvents: an error, or data with or
\* without its economicCalendar list
CalendarEvent(impact, country) ==
    [event |-> "CPI", country |-> country, impact |-> impact, time |-> "12:30"]
EventsReplies ==
    {[kind |-> "error", hasCalendar |-> FALSE, economicCalendar |-> <<>>],
     [kind |-> "data", hasCalendar |-> FALSE, economicCalendar |-> <<>>]}
    \cup {[kind |-> "data", hasCalendar |-> TRUE, economicCalendar |-> cal] :
            cal \in {<<>>, <<CalendarEvent("high", "US")>>,
                     <<CalendarEvent("low", "US"), CalendarEvent("high", "BR")>>,
                     <<CalendarEvent("high", "JP"), CalendarEvent("high", "US")>>}}

majorEconomies == {"US", "EU", "GB", "JP", "CN", "DE"}

\* what getEconomicEvents resolves with: [] on an error, else the high-impact events of the
\* major economies as {event, country, time}
getEconomicEvents(reply) ==
    IF reply.kind = "error" THEN <<>>
    ELSE LET HighImpact(e) == e.impact = "high" /\ e.country \in majorEconomies
             kept == SelectSeq(reply.economicCalendar, HighImpact)
         IN  [i \in 1..Len(kept) |->
                 [event |-> kept[i].event, country |-> kept[i].country, time |-> kept[i].time]]

NoData == [kind |-> "none", hasCandles |-> FALSE, candles |-> <<>>]
NoEvents == [kind |-> "none", hasCalendar |-> FALSE, economicCalendar |-> <<>>]
NoResult == [kind |-> "none", text |-> <<>>]

\* the parts of the state a specification does not exercise
SmaIdle == smaCandles = <<>> /\ smaPeriod = 0 /\ smaOut = <<>> /\ smaPc = "idle"
ChartIdle ==
    /\ client = "none"
    /\ marketData = [candles |-> <<>>, sma50 |-> <<>>, bollingerBands |-> <<>>]
    /\ smaLine = <<>>
    /\ bbLines = NoBandLines
    /\ chartPc = "idle"
TfIdle == tfLabel = Absent /\ tfOut = [threw |-> FALSE, value |-> JsUndefined] /\ tfPc = "idle"
ConcurrentIdle == handlers = <<>> /\ closure = <<>>
LoadIdle ==
    /\ loadClient = "none"
    /\ assetSelect = [disabled |-> FALSE, text |-> "", options |-> <<>>]
    /\ analyzeBtn = [disabled |-> FALSE]
    /\ messageBox = ""
    /\ loadPromise = "none"
    /\ derivSocket = "none"
    /\ timeoutId = "none"
    /\ handled = <<>>
ClickIdle ==
    /\ clickClient = "none"
    /\ loader = [hidden |-> TRUE]
    /\ resultsContent = [hidden |-> TRUE]
    /\ errorMessage = [hidden |-> TRUE, of |-> 0]
    /\ shown = [analysis |-> 0, chart |-> 0]
    /\ pending = {}
    /\ clicks = 0
    /\ retries = {}
RequestIdle ==
    /\ variant = "none"
    /\ req = [asset |-> Absent, timeframe |-> Absent]
    /\ pc = "idle"
    /\ candles = <<>>
    /\ text = <<>>
    /\ parseCall = [called |-> FALSE, arg |-> <<>>]
    /\ res = NoResponse
    /\ steps = <<>>
    /\ data = NoData
    /\ indicators = NoIndicators
    /\ events = NoEvents
    /\ prompt = NoPrompt
    /\ aiResult = NoResult

Init ==
    /\ ConcurrentIdle
    /\ LoadIdle
    /\ ClickIdle
    /\ SmaIdle
    /\ ChartIdle
    /\ TfIdle
    /\ variant \in Variants
    /\ req \in Requests
    /\ pc = "received"
    /\ candles = <<>>
    /\ text = <<>>
    /\ parseCall = [called |-> FALSE, arg |-> <<>>]
    /\ res = NoResponse
    /\ steps = <<>>
    /\ data = NoData
    /\ indicators = NoIndicators
    /\ events = NoEvents
    /\ prompt = NoPrompt
    /\ aiResult = NoResult

\* the handler up to its first await
Receive ==
    /\ pc = "received"
    /\ LET early == variant = "part_000"
           converted == getTimeframeInSeconds(req.timeframe)
       IN  /\ steps' = IF early THEN <<"timeframe">> ELSE <<>>
           /\ IF early /\ converted.threw
              THEN \* the TypeError leaves the async handler before its try block
                   pc' = "unhandled" /\ res' = res
              ELSE IF Falsy(req.asset) \/ Falsy(req.timeframe)
              THEN pc' = "responded" /\ res' = ErrorResponse(400, Err(MSG_REQUIRED))
              ELSE pc' = "connecting" /\ res' = res
    /\ UNCHANGED <<variant, req, candles, text, parseCall>>
    /\ UNCHANGED <<data, indicators, events, prompt, aiResult>>
    /\ UNCHANGED <<smaVars, chartVars, tfVars, concVars, loadVars, clickVars>>

\* ws.onopen: the ticks_history request is sent
SocketOpen ==
    /\ pc = "connecting"
    /\ steps' = IF variant = "part_000" THEN Append(steps, "fetch")
                ELSE steps \o <<"timeframe", "fetch">>
    /\ pc' = "fetching"
    /\ UNCHANGED <<variant, req, candles, text, parseCall, res>>
    /\ UNCHANGED <<data, indicators, events, prompt, aiResult>>
    /\ UNCHANGED <<smaVars, chartVars, tfVars, concVars, loadVars, clickVars>>

\* the same reconnecting after an error of the socket instead of rejecting
SocketError_Reconnect ==
    /\ pc \in {"connecting", "fetching"}
    /\ Len(steps) < 6
    /\ pc' = "connecting"
    /\ UNCHANGED <<variant, req, candles, text, parseCall, steps, res>>
    /\ UNCHANGED <<data, indicators, events, prompt, aiResult>>
    /\ UNCHANGED <<smaVars, chartVars, tfVars, concVars, loadVars, clickVars>>

\* ws.onerror: the fetch promise rejects and the handler's catch answers
SocketError ==
    /\ pc \in {"connecting", "fetching"}
    /\ res' = ErrorResponse(500, Err(IF variant = "part_000" THEN MSG_WEBSOCKET_000
                                      ELSE MSG_WEBSOCKET))
    /\ pc' = "responded"
    /\ UNCHANGED <<variant, req, candles, text, parseCall, steps>>
    /\ UNCHANGED <<data, indicators, events, prompt, aiResult>>
    /\ UNCHANGED <<smaVars, chartVars, tfVars, concVars, loadVars, clickVars>>

\* what the fetch promise resolves with: part_000 sorts by epoch, part_001 attaches the SMA,
\* server.js hands the list on as it came
ResolvedCandles(v, received) ==
    CASE v = "part_000" -> SortByEpoch(received)
      [] v = "part_001" -> calculateSMA(received, SMA_PERIOD)
      [] OTHER -> received

\* ws.onmessage of getMarketData / getCandleData: the fetch promise settles; a rejection is
\* answered by the handler's catch
CandleMessage ==
    /\ pc = "fetching"
    /\ \E message \in CandleReplies :
        /\ data' = message
        /\ CASE message.kind = "error" ->
                /\ res' = ErrorResponse(500, Err(MSG_UPSTREAM))
                /\ pc' = "responded"
                /\ UNCHANGED <<candles, steps>>
          [] message.kind = "other" ->
                \* part_000 closes the socket without settling; the others keep listening
                /\ pc' = IF variant = "part_000" THEN "hung" ELSE pc
                /\ UNCHANGED <<res, candles, steps>>
          [] message.kind = "candles" /\ variant = "part_000" ->
                IF ~message.hasCandles
                THEN \* data.candles.map throws inside the socket callback
                     pc' = "crashed" /\ UNCHANGED <<res, candles, steps>>
                ELSE /\ candles' = ResolvedCandles(variant, message.candles)
                     /\ pc' = "resolved"
                     /\ UNCHANGED <<res, steps>>
          [] message.kind = "candles" /\ variant # "part_000" ->
                IF message.hasCandles /\ Len(message.candles) > 0
                THEN /\ candles' = ResolvedCandles(variant, message.candles)
                     /\ pc' = "resolved"
                     /\ steps' = IF variant = "part_001" THEN Append(steps, "indicators")
                                 ELSE steps
                     /\ res' = res
                ELSE /\ res' = ErrorResponse(500, Err(IF variant = "part_001"
                                                      THEN MSG_NO_CANDLES_001
                                                      ELSE MSG_NO_CANDLES_SERVER))
                     /\ pc' = "responded"
                     /\ UNCHANGED <<candles, steps>>
    /\ UNCHANGED <<variant, req, text, parseCall>>
    /\ UNCHANGED <<indicators, events, prompt, aiResult>>
    /\ UNCHANGED <<smaVars, chartVars, tfVars, concVars, loadVars, clickVars>>

\* the stages the handler runs between the fetch and its next await
StagesAfterFetch_PromptLast(v) ==
    CASE v = "server_js" -> <<"indicators", "events">>
      [] v = "part_000" -> <<"indicators", "completion", "prompt">>
      [] OTHER -> <<"completion", "prompt">>

StagesAfterFetch(v) ==
    CASE v = "server_js" -> <<"indicators", "events">>
      [] v = "part_000" -> <<"indicators", "prompt", "completion">>
      [] OTHER -> <<"prompt", "completion">>

\* the handler after await getMarketData / getCandleData, up to its next await
ResumeAfterFetch ==
    /\ pc = "resolved"
    /\ IF variant = "part_000" /\ Len(candles) = 0
       THEN /\ res' = ErrorResponse(404, Err(MSG_NO_CANDLES_404))
            /\ pc' = "responded"
            /\ UNCHANGED <<steps, indicators, prompt>>
       ELSE /\ steps' = steps \o StagesAfterFetch(variant)
            /\ indicators' = IF variant = "part_001" THEN indicators
                             ELSE calculateIndicators(variant, candles)
            /\ prompt' = CASE variant = "part_000" -> Prompt_000(req, candles, indicators')
                           [] variant = "part_001" -> Prompt_001(req, candles)
                           [] OTHER -> prompt
            /\ pc' = IF variant = "server_js" THEN "events" ELSE "completing"
            /\ res' = res
    /\ UNCHANGED <<variant, req, candles, text, parseCall>>
    /\ UNCHANGED <<data, events, aiResult>>
    /\ UNCHANGED <<smaVars, chartVars, tfVars, concVars, loadVars, clickVars>>

\* the economicCalendar callback of getEconomicEvents (server.js): it resolves on an error
\* as on data, and the handler builds the prompt and sends the completion request; on data
\* without the list data.economicCalendar.filter throws inside the callback and the promise
\* stays unsettled
EventsReply ==
    /\ pc = "events"
    /\ \E reply \in EventsReplies :
        /\ events' = reply
        /\ IF reply.kind = "data" /\ ~reply.hasCalendar
           THEN pc' = "crashed" /\ UNCHANGED <<prompt, steps>>
           ELSE /\ prompt' = Prompt_server(req, candles, indicators, getEconomicEvents(reply))
                /\ pc' = "completing"
                /\ steps' = steps \o <<"prompt", "completion">>
    /\ UNCHANGED <<variant, req, candles, text, parseCall, res>>
    /\ UNCHANGED <<data, indicators, aiResult>>
    /\ UNCHANGED <<smaVars, chartVars, tfVars, concVars, loadVars, clickVars>>

\* the completion call settles, and the handler runs to its response
CompletionReply ==
    /\ pc = "completing"
    /\ \E r \in CompletionReplies :
        /\ variant = "part_000" => r.kind # "not_ok"
        /\ aiResult' = r
        /\ text' = r.text
        /\ pc' = "responded"
        /\ CASE r.kind = "rejected" ->
                  /\ res' = ErrorResponse(500, Err(MSG_TRANSPORT))
                  /\ UNCHANGED <<parseCall, steps>>
             [] r.kind = "not_ok" ->
                  /\ res' = ErrorResponse(500, Err(MSG_STATUS))
                  /\ UNCHANGED <<parseCall, steps>>
             [] r.kind = "no_text" \/ (r.kind = "text" /\ r.text = <<>> /\ variant # "server_js") ->
                  /\ res' = ErrorResponse(500,
                               Err(CASE variant = "server_js" -> MSG_TYPE_ERROR
                                     [] variant = "part_000" -> MSG_INVALID_000
                                     [] OTHER -> MSG_INVALID_001))
                  /\ UNCHANGED <<parseCall, steps>>
             [] OTHER ->
                  /\ steps' = Append(steps, "extract")
                  /\ parseCall' = IF NoJsonFound(variant, r.text) THEN parseCall
                                  ELSE [called |-> TRUE, arg |-> jsonString(r.text)]
                  /\ res' = ExtractionResponse(variant, r.text, candles)
    /\ UNCHANGED <<variant, req, candles>>
    /\ UNCHANGED <<data, indicators, events, prompt>>
    /\ UNCHANGED <<smaVars, chartVars, tfVars, concVars, loadVars, clickVars>>

Next ==
    \/ Receive
    \/ SocketOpen
    \/ SocketError
    \/ CandleMessage
    \/ ResumeAfterFetch
    \/ EventsReply
    \/ CompletionReply

Spec == Init /\ [][Next]_vars

\* calculateSMA on generated candle sequences
InitSMA ==
    /\ ConcurrentIdle
    /\ LoadIdle
    /\ ClickIdle
    /\ ChartIdle
    /\ RequestIdle
    /\ TfIdle
    /\ smaCandles \in CandleSeqs
    /\ smaPeriod \in 1..MaxPeriod
    /\ smaOut = <<>>
    /\ smaPc = "ready"

SpecSMA == InitSMA /\ [][NextSMA]_vars

\* displayChartData on generated market data
InitChart ==
    /\ ConcurrentIdle
    /\ LoadIdle
    /\ ClickIdle
    /\ SmaIdle
    /\ RequestIdle
    /\ TfIdle
    /\ client \in Clients
    /\ \E n \in 1..MaxCandles, m \in 0..MaxCandles, b \in 0..MaxCandles :
          /\ m <= n
          /\ b <= n
          /\ marketData = [candles |-> ChartCandles(n), sma50 |-> SmaSeries(m),
                           bollingerBands |-> BollingerSeries(b)]
    /\ smaLine = <<>>
    /\ bbLines = NoBandLines
    /\ chartPc = "received"

SpecChart == InitChart /\ [][NextChart]_vars

\* ------------------------------------------------------------- getTimeframeInSeconds as a pure function
\* labels: up to MaxDigits digits, then a unit letter, another character, or nothing
TfDigits == {"0", "1", "5"}
TfSuffixes == {<<>>} \cup {<<ch>> : ch \in {"m", "M", "h", "H", "d", "D", "s", "x"}}
TimeframeLabels ==
    {Str(ds \o suffix) : ds \in SeqsOf(TfDigits, 0, MaxDigits), suffix \in TfSuffixes}

CallGetTimeframeInSeconds ==
    /\ tfPc = "ready"
    /\ tfOut' = getTimeframeInSeconds(tfLabel)
    /\ tfPc' = "done"
    /\ UNCHANGED tfLabel
    /\ UNCHANGED <<smaVars, chartVars, reqVars, concVars, loadVars, clickVars>>

NextTimeframe == CallGetTimeframeInSeconds

InitTimeframe ==
    /\ ConcurrentIdle
    /\ LoadIdle
    /\ ClickIdle
    /\ SmaIdle
    /\ ChartIdle
    /\ RequestIdle
    /\ tfLabel \in TimeframeLabels
    /\ tfOut = [threw |-> FALSE, value |-> JsUndefined]
    /\ tfPc = "ready"

SpecTimeframe == InitTimeframe /\ [][NextTimeframe]_vars

\* ------------------------------------------------------------- indicators and prompt on long candle lists
\* n candles in epoch order, closes alternating
SeriesCandles(n) == [i \in 1..n |-> Candle(60 * i, 1 + (i % 2), 1 + ((i + 1) % 2))]

\* the request right after its fetch resolved with 1..MaxSeries candles
InitIndicators ==
    /\ ConcurrentIdle
    /\ LoadIdle
    /\ ClickIdle
    /\ SmaIdle
    /\ ChartIdle
    /\ TfIdle
    /\ variant \in Variants
    /\ req = [asset |-> Str(<<"R", "_", "1", "0", "0">>), timeframe |-> Str(<<"1", "H">>)]
    /\ pc = "resolved"
    /\ \E n \in 1..MaxSeries :
          /\ data = [kind |-> "candles", hasCandles |-> TRUE, candles |-> SeriesCandles(n)]
          /\ candles = ResolvedCandles(variant, SeriesCandles(n))
    /\ text = <<>>
    /\ parseCall = [called |-> FALSE, arg |-> <<>>]
    /\ res = NoResponse
    /\ steps = IF variant = "part_001" THEN <<"timeframe", "fetch", "indicators">>
               ELSE <<"timeframe", "fetch">>
    /\ indicators = NoIndicators
    /\ events = NoEvents
    /\ prompt = NoPrompt
    /\ aiResult = NoResult

NextIndicators ==
    \/ ResumeAfterFetch
    \/ EventsReply

SpecIndicators == InitIndicators /\ [][NextIndicators]_vars

\* ------------------------------------------------------------- requests in flight together (server.js)
MaxRequests == 2

\* the same with candles declared once for the module instead of inside the handler
Slot_Shared(i) == 1

\* const candles = await getMarketData(...): a binding of the invocation i of the handler
Slot(i) == i

ConcurrentRequests ==
    {[asset |-> a, timeframe |-> Str(<<"1", "H">>)] : a \in {Absent, Str(<<"R", "_", "1", "0", "0">>)}}

\* the candle source answers with an error envelope, no candle, one candle or two
ConcurrentCandleReplies ==
    {[kind |-> "error", hasCandles |-> FALSE, candles |-> <<>>]}
    \cup {[kind |-> "candles", hasCandles |-> TRUE, candles |-> [i \in 1..n |-> Candle(60 * i, 1, 2)]] :
            n \in 0..MaxFetched}

\* the completion call rejects, or answers with prose alone or with a full recommendation
ConcurrentCompletionReplies ==
    {[kind |-> "rejected", text |-> <<>>],
     [kind |-> "text", text |-> <<Prose>>],
     [kind |-> "text",
      text |-> <<LBrace>> \o JoinMembers(<<Member("entryPoint", JsNum(12345)),
                                           Member("stopLoss", JsNum(12000)),
                                           Member("takeProfit", JsNum(13000))>>) \o <<RBrace>>]}

InitConcurrent ==
    /\ SmaIdle
    /\ ChartIdle
    /\ TfIdle
    /\ RequestIdle
    /\ LoadIdle
    /\ ClickIdle
    /\ handlers \in [(1..MaxRequests) -> {[pc |-> "received", req |-> r, data |-> NoData, aiResult |-> NoResult,
                                      res |-> NoResponse] : r \in ConcurrentRequests}]
    /\ closure = [i \in (1..MaxRequests) |-> <<>>]

\* invocation i of the handler up to await getMarketData
ReceiveConcurrent(i) ==
    /\ handlers[i].pc = "received"
    /\ handlers' =
          [handlers EXCEPT ![i] =
              IF Falsy(@.req.asset) \/ Falsy(@.req.timeframe)
              THEN [@ EXCEPT !.pc = "responded", !.res = ErrorResponse(400, Err(MSG_REQUIRED))]
              ELSE [@ EXCEPT !.pc = "fetching"]]
    /\ UNCHANGED closure
    /\ UNCHANGED <<smaVars, chartVars, reqVars, tfVars, loadVars, clickVars>>

\* the candle source answers invocation i: its fetch promise settles, and on a list the
\* handler binds candles and goes on to the events lookup
CandleMessageConcurrent(i) ==
    /\ handlers[i].pc = "fetching"
    /\ \E message \in ConcurrentCandleReplies :
          IF message.kind = "error"
          THEN /\ handlers' = [handlers EXCEPT ![i] =
                      [@ EXCEPT !.data = message, !.pc = "responded",
                                !.res = ErrorResponse(500, Err(MSG_UPSTREAM))]]
               /\ UNCHANGED closure
          ELSE IF Len(message.candles) = 0
          THEN /\ handlers' = [handlers EXCEPT ![i] =
                      [@ EXCEPT !.data = message, !.pc = "responded",
                                !.res = ErrorResponse(500, Err(MSG_NO_CANDLES_SERVER))]]
               /\ UNCHANGED closure
          ELSE /\ handlers' = [handlers EXCEPT ![i] = [@ EXCEPT !.data = message, !.pc = "events"]]
               /\ closure' = [closure EXCEPT ![Slot(i)] = ResolvedCandles("server_js", message.candles)]
    /\ UNCHANGED <<smaVars, chartVars, reqVars, tfVars, loadVars, clickVars>>

\* getEconomicEvents of invocation i resolves; the completion request is sent
EventsReplyConcurrent(i) ==
    /\ handlers[i].pc = "events"
    /\ handlers' = [handlers EXCEPT ![i] = [@ EXCEPT !.pc = "completing"]]
    /\ UNCHANGED closure
    /\ UNCHANGED <<smaVars, chartVars, reqVars, tfVars, loadVars, clickVars>>

\* the completion call of invocation i settles, and the handler answers with the candles
\* its binding holds
CompletionReplyConcurrent(i) ==
    /\ handlers[i].pc = "completing"
    /\ \E r \in ConcurrentCompletionReplies :
          handlers' = [handlers EXCEPT ![i] =
              [@ EXCEPT !.aiResult = r, !.pc = "responded",
                        !.res = IF r.kind = "rejected"
                                THEN ErrorResponse(500, Err(MSG_TRANSPORT))
                                ELSE ExtractionResponse("server_js", r.text, closure[Slot(i)])]]
    /\ UNCHANGED closure
    /\ UNCHANGED <<smaVars, chartVars, reqVars, tfVars, loadVars, clickVars>>

NextConcurrent ==
    \E i \in (1..MaxRequests) :
        \/ ReceiveConcurrent(i)
        \/ CandleMessageConcurrent(i)
        \/ EventsReplyConcurrent(i)
        \/ CompletionReplyConcurrent(i)

SpecConcurrent == InitConcurrent /\ [][NextConcurrent]_vars

\* ------------------------------------------------------------- loadAssets of the browser clients
MaxSymbols == 2
MaxMessages == 2

\* display names, listed in the order localeCompare puts them
DisplayNames == <<"AUD/USD", "Gold/USD", "US 500", "Volatility 10 Index">>
localeCompare(a, b) ==
    (CHOOSE i \in 1..Len(DisplayNames) : DisplayNames[i] = a)
        - (CHOOSE i \in 1..Len(DisplayNames) : DisplayNames[i] = b)

ActiveSymbols ==
    {[symbol |-> "frxAUDUSD", display_name |-> "AUD/USD", market |-> "forex"],
     [symbol |-> "frxXAUUSD", display_name |-> "Gold/USD", market |-> "commodities"],
     [symbol |-> "OTC_SPC", display_name |-> "US 500", market |-> "indices"],
     [symbol |-> "R_10", display_name |-> "Volatility 10 Index", market |-> "synthetic_index"]}

\* the lists of an active_symbols message: up to MaxSymbols different symbols in any order
SymbolLists ==
    {list \in SeqsOf(ActiveSymbols, 0, MaxSymbols) :
        \A i, j \in 1..Len(list) : list[i] = list[j] => i = j}

\* a message of the socket: an error envelope, an active_symbols message with or without
\* its list, or a message of another type
AssetReplies ==
    {[kind |-> "error", hasList |-> FALSE, active_symbols |-> <<>>],
     [kind |-> "other", hasList |-> FALSE, active_symbols |-> <<>>],
     [kind |-> "active_symbols", hasList |-> FALSE, active_symbols |-> <<>>]}
    \cup {[kind |-> "active_symbols", hasList |-> TRUE, active_symbols |-> list] :
            list \in SymbolLists}

\* data.active_symbols.filter(s => forex, indices or synthetic_index)
RelevantMarkets == {"forex", "indices", "synthetic_index"}
FilterRelevant(list) ==
    LET Kept(sym) == sym.market \in RelevantMarkets IN SelectSeq(list, Kept)

\* .sort((a, b) => a.display_name.localeCompare(b.display_name)), a stable sort
SortByDisplayName(list) ==
    LET Before(j, i) ==
            \/ localeCompare(list[j].display_name, list[i].display_name) < 0
            \/ (localeCompare(list[j].display_name, list[i].display_name) = 0 /\ j < i)
        Place(i) == 1 + Cardinality({j \in 1..Len(list) : Before(j, i)})
    IN  [k \in 1..Len(list) |-> list[CHOOSE i \in 1..Len(list) : Place(i) = k]]

\* one <option> per symbol: value = symbol, textContent = display_name
OptionsOf(symbols) ==
    [i \in 1..Len(symbols) |-> [value |-> symbols[i].symbol, textContent |-> symbols[i].display_name]]

\* innerHTML = '<option value="">text</option>'
Placeholder(select, shownText) == [select EXCEPT !.text = shownText, !.options = <<>>]

\* resolve and reject act on a pending promise only
Settle(promise, outcome) == IF promise = "pending" THEN outcome ELSE promise

\* the page when loadAssets has returned its promise: the dropdown disabled (and, in
\* script.js, the Analyze button), the socket connecting, the timer armed
InitAssets ==
    /\ SmaIdle
    /\ ChartIdle
    /\ TfIdle
    /\ RequestIdle
    /\ ConcurrentIdle
    /\ ClickIdle
    /\ loadClient \in {"script_js", "server_js"}
    /\ assetSelect = [disabled |-> TRUE, text |-> "Loading assets...", options |-> <<>>]
    /\ analyzeBtn = [disabled |-> (loadClient = "script_js")]
    /\ messageBox = ""
    /\ loadPromise = "pending"
    /\ derivSocket = "connecting"
    /\ timeoutId = "armed"
    /\ handled = <<>>

\* derivSocket.onopen: the active_symbols request is sent
DerivSocketOpen ==
    /\ derivSocket = "connecting"
    /\ derivSocket' = "open"
    /\ UNCHANGED <<loadClient, assetSelect, analyzeBtn, messageBox, loadPromise, timeoutId, handled>>
    /\ UNCHANGED <<smaVars, chartVars, reqVars, tfVars, concVars, clickVars>>

\* the onmessage handler written first in loadAssets (the only one of server.js): an error
\* envelope, an active_symbols message, anything else
HandleAssetsMessage(dataMsg) ==
    IF dataMsg.kind = "error"
    THEN /\ messageBox' = "Failed to load assets: <error.message>"
         /\ assetSelect' = Placeholder(assetSelect, "Error loading assets")
         /\ loadPromise' = Settle(loadPromise, "rejected")
         /\ derivSocket' = "closed"
         /\ UNCHANGED analyzeBtn
    ELSE IF dataMsg.kind = "active_symbols"
    THEN /\ derivSocket' = "closed"
         /\ IF dataMsg.hasList /\ Len(dataMsg.active_symbols) > 0
            THEN LET symbols == SortByDisplayName(FilterRelevant(dataMsg.active_symbols))
                 IN  IF Len(symbols) > 0
                     THEN /\ assetSelect' = [disabled |-> FALSE, text |-> "",
                                             options |-> OptionsOf(symbols)]
                          /\ analyzeBtn' = IF loadClient = "script_js"
                                           THEN [disabled |-> FALSE] ELSE analyzeBtn
                          /\ loadPromise' = Settle(loadPromise, "resolved")
                          /\ UNCHANGED messageBox
                     ELSE /\ assetSelect' = Placeholder(assetSelect, "No relevant assets found")
                          /\ messageBox' = (IF loadClient = "script_js"
                                           THEN "No relevant trading assets found from the API. Check filters."
                                           ELSE "No relevant trading assets found from the API.")
                          /\ loadPromise' = Settle(loadPromise, "rejected")
                          /\ UNCHANGED analyzeBtn
            ELSE /\ assetSelect' = Placeholder(assetSelect, "No assets received")
                 /\ messageBox' = (IF loadClient = "script_js"
                                  THEN "No asset data received from the API. Response was empty."
                                  ELSE "No assets data received from the API.")
                 /\ loadPromise' = Settle(loadPromise, "rejected")
                 /\ UNCHANGED analyzeBtn
    ELSE UNCHANGED <<assetSelect, analyzeBtn, messageBox, loadPromise, derivSocket>>

\* a message of the socket reaches the handler assigned to derivSocket.onmessage: in
\* server.js the handler above; in script.js the assignment at the end of loadAssets has
\* replaced it by one that clears the timer and parses the message
DerivSocketMessage ==
    /\ derivSocket = "open"
    /\ Len(handled) < MaxMessages
    /\ \E dataMsg \in AssetReplies :
        /\ handled' = Append(handled, dataMsg)
        /\ IF loadClient = "script_js"
           THEN /\ timeoutId' = IF timeoutId = "armed" THEN "cleared" ELSE timeoutId
                /\ UNCHANGED <<assetSelect, analyzeBtn, messageBox, loadPromise, derivSocket>>
           ELSE /\ HandleAssetsMessage(dataMsg)
                /\ UNCHANGED timeoutId
    /\ UNCHANGED loadClient
    /\ UNCHANGED <<smaVars, chartVars, reqVars, tfVars, concVars, clickVars>>

\* derivSocket.onerror
DerivSocketError ==
    /\ derivSocket \in {"connecting", "open"}
    /\ messageBox' = (IF loadClient = "script_js"
                       THEN "Failed to connect to Deriv WebSocket for assets. Check your network or API status."
                       ELSE "Failed to connect to Deriv WebSocket for assets. Check your network.")
    /\ assetSelect' = Placeholder(assetSelect, "Network error")
    /\ loadPromise' = Settle(loadPromise, "rejected")
    /\ derivSocket' = "closed"
    /\ UNCHANGED <<loadClient, analyzeBtn, timeoutId, handled>>
    /\ UNCHANGED <<smaVars, chartVars, reqVars, tfVars, concVars, clickVars>>

\* the setTimeout callback: it acts when the dropdown is still disabled
LoadTimeout ==
    /\ timeoutId = "armed"
    /\ timeoutId' = "fired"
    /\ IF assetSelect.disabled
       THEN /\ messageBox' = "Asset loading timed out. Please refresh and try again."
            /\ assetSelect' = Placeholder(assetSelect, "Loading timed out")
            /\ loadPromise' = Settle(loadPromise, "rejected")
            /\ derivSocket' = "closed"
       ELSE UNCHANGED <<messageBox, assetSelect, loadPromise, derivSocket>>
    /\ UNCHANGED <<loadClient, analyzeBtn, handled>>
    /\ UNCHANGED <<smaVars, chartVars, reqVars, tfVars, concVars, clickVars>>

NextAssets ==
    \/ DerivSocketOpen
    \/ DerivSocketMessage
    \/ DerivSocketError
    \/ LoadTimeout

SpecAssets == InitAssets /\ [][NextAssets]_vars

\* ------------------------------------------------------------- the Analyze button of the browser clients
MaxClicks == 3

\* the page before the first click: loader, results and error message hidden
InitClicks ==
    /\ SmaIdle
    /\ ChartIdle
    /\ TfIdle
    /\ RequestIdle
    /\ ConcurrentIdle
    /\ LoadIdle
    /\ clickClient \in {"script_js_243", "script_js_475", "server_js_555"}
    /\ loader = [hidden |-> TRUE]
    /\ resultsContent = [hidden |-> TRUE]
    /\ errorMessage = [hidden |-> TRUE, of |-> 0]
    /\ shown = [analysis |-> 0, chart |-> 0]
    /\ pending = {}
    /\ clicks = 0
    /\ retries = {}

\* a click on Analyze, up to await fetch: without a selection a message box and nothing
\* else; otherwise results and error hidden, loader shown, the chart cleared, the request
\* sent. The button stays enabled while a request is in flight.
Click ==
    /\ clickClient # "none"
    /\ \E selected \in BOOLEAN :
        IF ~selected
        THEN /\ messageBox' = (IF clickClient = "script_js_475"
                                THEN "Please select both an asset and a timeframe."
                                ELSE "Please select an asset before analyzing.")
             /\ UNCHANGED clickVars
        ELSE /\ clicks < MaxClicks
             /\ clicks' = clicks + 1
             /\ pending' = pending \cup {clicks + 1}
             /\ resultsContent' = [hidden |-> TRUE]
             /\ loader' = [hidden |-> FALSE]
             /\ errorMessage' = [hidden |-> TRUE,
                                 of |-> IF clickClient = "script_js_475" THEN errorMessage.of ELSE 0]
             /\ shown' = [shown EXCEPT !.chart = 0]
             /\ UNCHANGED <<clickClient, retries, messageBox>>
    /\ UNCHANGED <<loadClient, assetSelect, analyzeBtn, loadPromise, derivSocket, timeoutId, handled>>
    /\ UNCHANGED <<smaVars, chartVars, reqVars, tfVars, concVars>>

\* the fetch of click id settles and its handler runs to its end: on a success the
\* recommendation is written, displayChartData is called, the loader is hidden and the
\* results are shown; on a failure the error message is written and shown and the loader
\* is hidden. displayChartData of script.js (line 132) draws the chart or, finding its
\* container without dimensions, schedules another attempt.
Respond(id) ==
    /\ id \in pending
    /\ pending' = pending \ {id}
    /\ \E ok \in BOOLEAN, ready \in BOOLEAN :
        IF ok
        THEN /\ loader' = [hidden |-> TRUE]
             /\ resultsContent' = [hidden |-> FALSE]
             /\ IF clickClient = "script_js_243" /\ ~ready
                THEN /\ shown' = [analysis |-> id, chart |-> 0]
                     /\ retries' = retries \cup {id}
                ELSE /\ shown' = [analysis |-> id, chart |-> id]
                     /\ UNCHANGED retries
             /\ UNCHANGED <<errorMessage, messageBox>>
        ELSE /\ errorMessage' = [hidden |-> FALSE, of |-> id]
             /\ loader' = [hidden |-> TRUE]
             /\ messageBox' = IF clickClient = "script_js_243" THEN "Analysis failed: <error.message>" ELSE messageBox
             /\ UNCHANGED <<resultsContent, shown, retries>>
    /\ UNCHANGED <<clickClient, clicks>>
    /\ UNCHANGED <<loadClient, assetSelect, analyzeBtn, loadPromise, derivSocket, timeoutId, handled>>
    /\ UNCHANGED <<smaVars, chartVars, reqVars, tfVars, concVars>>

\* setTimeout(() => displayChartData(marketData), 500) of click id runs and draws its chart
ChartRetry(id) ==
    /\ id \in retries
    /\ retries' = retries \ {id}
    /\ shown' = [shown EXCEPT !.chart = id]
    /\ UNCHANGED <<clickClient, loader, resultsContent, errorMessage, pending, clicks>>
    /\ UNCHANGED loadVars
    /\ UNCHANGED <<smaVars, chartVars, reqVars, tfVars, concVars>>

NextClicks ==
    \/ Click
    \/ \E id \in 1..MaxClicks : Respond(id)
    \/ \E id \in 1..MaxClicks : ChartRetry(id)

SpecClicks == InitClicks /\ [][NextClicks]_vars

\* ============================================================= claims

\* sum of the closes of candles lo..hi (1-based, inclusive)
RECURSIVE CloseSum(_, _, _)
CloseSum(cs, lo, hi) == IF lo > hi THEN 0 ELSE cs[hi].close + CloseSum(cs, lo, hi - 1)
\* v is sum / n rounded to a nearest unit (either neighbour on a tie)
IsRoundedMean(v, sum, n) == 2 * v * n - 2 * sum <= n /\ 2 * sum - 2 * v * n <= n

\* C1: calculateSMA(candles, period) returns as many candles, in the same order and with every
\* original field unchanged; from index period-1 on a candle carries sma = the mean of the last
\* period closes rounded to 4 decimals, and before that index it carries sma = null.
C1_SmaAlignedOnCandles ==
    smaPc = "done" =>
        /\ Len(smaOut) = Len(smaCandles)
        /\ \A i \in 1..Len(smaCandles) :
              /\ smaOut[i].epoch = smaCandles[i].epoch
              /\ smaOut[i].open = smaCandles[i].open
              /\ smaOut[i].high = smaCandles[i].high
              /\ smaOut[i].low = smaCandles[i].low
              /\ smaOut[i].close = smaCandles[i].close
              /\ IF i - 1 >= smaPeriod - 1
                 THEN /\ smaOut[i].sma.type = "number"
                      /\ IsRoundedMean(smaOut[i].sma.num,
                                       CloseSum(smaCandles, i - smaPeriod + 1, i), smaPeriod)
                 ELSE smaOut[i].sma = JsNull

\* a run with a warm-up candle (null) and a mean that needed rounding
C1_Witness ==
    /\ smaPc = "done"
    /\ smaPeriod = 2
    /\ Len(smaOut) = 3
    /\ smaOut[1].sma = JsNull
    /\ smaOut[2].sma.type = "number"
    /\ 2 * smaOut[2].sma.num # smaCandles[1].close + smaCandles[2].close
    /\ smaOut[3].sma.type = "number"

\* series element j at the time of candle N-M+j
AlignedLine(cs, series) ==
    [j \in 1..Len(series) |->
        [time |-> cs[Len(cs) - Len(series) + j].time, value |-> series[j]]]

\* C2: an indicator series of length M overlaid on N candles is plotted with element j at the
\* time of candle N-M+j (the first N-M candles show no point), for the SMA(50) line and the
\* three Bollinger lines, in every client.
C2_OverlayAligned ==
    chartPc = "drawn" =>
        /\ smaLine = AlignedLine(marketData.candles, marketData.sma50)
        /\ bbLines.upper = AlignedLine(marketData.candles,
                               [j \in 1..Len(marketData.bollingerBands) |->
                                   marketData.bollingerBands[j].upper])
        /\ bbLines.middle = AlignedLine(marketData.candles,
                               [j \in 1..Len(marketData.bollingerBands) |->
                                   marketData.bollingerBands[j].middle])
        /\ bbLines.lower = AlignedLine(marketData.candles,
                               [j \in 1..Len(marketData.bollingerBands) |->
                                   marketData.bollingerBands[j].lower])

\* the text contains both braces
HasBothBraces(t) == indexOf(t, LBrace) # -1 /\ lastIndexOf(t, RBrace) # -1
\* the tokens from the first "{" to the last "}" inclusive (none when "}" comes first)
FirstToLast(t) == SubSeq(t, indexOf(t, LBrace) + 1, lastIndexOf(t, RBrace) + 1)

\* C3: for a completion text that contains both "{" and "}", the string handed to JSON.parse
\* is the substring from the first "{" to the last "}" inclusive, wherever the two stand.
C3_CandidateIsFirstToLast ==
    (parseCall.called /\ HasBothBraces(text)) => parseCall.arg = FirstToLast(text)

\* C4: the recommendation of a success response is a JSON object, never a number, a string,
\* an array, a boolean or null.
C4_RecommendationIsObject ==
    res.status = 200 => res.analysis.type = "object"

RequiredKeys == {"entryPoint", "stopLoss", "takeProfit"}
NumericCoercible(v) == v.type = "number" \/ (v.type = "string" /\ v.str \in NumericStrings)
\* the object has its three required keys, each numeric or a string that reads as a number
HasRequiredNumbers(value) ==
    \A k \in RequiredKeys : \E p \in value.props : p.k = k /\ NumericCoercible(p.v)

\* C5: when the object parsed from the completion text lacks entryPoint, stopLoss or
\* takeProfit, or holds a value for one of them that cannot be coerced to a number, the
\* request ends in a failure response, never in a success response.
C5_MissingKeyFails ==
    (/\ pc = "responded"
     /\ parseCall.called
     /\ JSON_parse(parseCall.arg).ok
     /\ JSON_parse(parseCall.arg).value.type = "object"
     /\ ~HasRequiredNumbers(JSON_parse(parseCall.arg).value))
        => res.status >= 400

\* the three extraction failures of a text: no "{"..."}" region, a region that is not JSON,
\* a region that parses without the required numeric keys; "none" for a valid recommendation
FailureClass(t) ==
    IF ~(HasBothBraces(t) /\ indexOf(t, LBrace) < lastIndexOf(t, RBrace)) THEN "no region"
    ELSE IF ~JSON_parse(FirstToLast(t)).ok THEN "not JSON"
    ELSE IF ~HasRequiredNumbers(JSON_parse(FirstToLast(t)).value) THEN "invalid keys"
    ELSE "none"

\* C6: each of the three extraction failures ends the request with a failure response, and
\* the messages of two different failures differ.
C6_FailuresDistinct ==
    (pc = "responded" /\ parseCall.called /\ FailureClass(text) # "none") =>
        /\ res.status >= 400
        /\ \A t \in CompletionTexts :
              (t # <<>> /\ FailureClass(t) \notin {"none", FailureClass(text)})
                  => ExtractionResponse(variant, t, candles).error # res.error

\* the text has a fenced block; its interior is what stands between the first two fences
HasFence(t) == \E i, j \in 1..Len(t) : i < j /\ t[i] = Fence /\ t[j] = Fence
FenceInterior(t) ==
    LET open == indexOf(t, Fence) + 1
        close == CHOOSE j \in (open + 1)..Len(t) :
                     t[j] = Fence /\ \A m \in (open + 1)..(j - 1) : t[m] # Fence
    IN  SubSeq(t, open + 1, close - 1)

\* C7: when the completion text holds a fenced code block, the interior of the first block is
\* the candidate: a valid object inside it is extracted successfully whatever braces stand in
\* the prose around it.
C7_FencedObjectExtracted ==
    (/\ pc = "responded"
     /\ Len(steps) > 0
     /\ steps[Len(steps)] = "extract"
     /\ HasFence(text)
     /\ JSON_parse(FenceInterior(text)).ok
     /\ JSON_parse(FenceInterior(text)).value.type = "object"
     /\ HasRequiredNumbers(JSON_parse(FenceInterior(text)).value))
        => /\ res.status = 200
           /\ res.analysis.props = JSON_parse(FenceInterior(text)).value.props

\* C8: in a success response entryPoint, stopLoss and takeProfit are numbers; a string-encoded
\* numeric is returned coerced to the number.
C8_RequiredAreNumbers ==
    res.status = 200 =>
        \A p \in res.analysis.props : p.k \in RequiredKeys => p.v.type = "number"

\* the member tokens of a candidate string
MemberTokens(s) == {s[i] : i \in {i \in 1..Len(s) : s[i].c = "member"}}

\* C9: on success the recommendation is exactly what the candidate string holds: every key of
\* it, unknown keys included, with its value unmodified, and no key it does not hold.
C9_RecommendationUnmodified ==
    res.status = 200 =>
        /\ parseCall.called
        /\ res.analysis.props = {[k |-> m.k, v |-> m.v] : m \in MemberTokens(parseCall.arg)}
        /\ parseCall.arg[1].c = "literal" => res.analysis = AtomValue(parseCall.arg[1].v)
        /\ parseCall.arg[1] = LBrace => res.analysis.type = "object"

\* a success whose object has a string-encoded entryPoint, an unknown key and no takeProfit
C9_Witness ==
    /\ res.status = 200
    /\ text[1] = Prose
    /\ [k |-> "riskReward", v |-> JsNum(15000)] \in res.analysis.props
    /\ [k |-> "entryPoint", v |-> JsStr("1.2345")] \in res.analysis.props
    /\ \A p \in res.analysis.props : p.k # "takeProfit"

\* C10: a request without asset or without timeframe (absent or empty) is answered with
\* status 400 and 'Asset and timeframe are required.', and no pipeline step runs before that,
\* in every server variant.
C10_MissingFieldRejectedFirst ==
    (pc # "received" /\ (Falsy(req.asset) \/ Falsy(req.timeframe))) =>
        /\ res = ErrorResponse(400, Err(MSG_REQUIRED))
        /\ steps = <<>>

\* the stages of a request among its steps, and the order the stages have
Stages == {"fetch", "indicators", "prompt", "completion", "extract"}
StageOrder == <<"fetch", "indicators", "prompt", "completion", "extract">>
StagesOf(ss) == LET IsStage(x) == x \in Stages IN SelectSeq(ss, IsStage)
IsPrefix(a, b) == Len(a) <= Len(b) /\ a = SubSeq(b, 1, Len(a))

\* C11: the stages of a request run only in the order fetch, indicators, prompt, completion,
\* extraction, success response; a stage that fails (rejected fetch, non-success completion
\* status, malformed envelope, extraction failure) leads directly to a failure response, and
\* no later stage runs for the request.
C11_StagesInOrder ==
    /\ [](/\ IsPrefix(StagesOf(steps), StageOrder)
          /\ res.status = 200 => StagesOf(steps) = StageOrder
          /\ (res.status >= 400 /\ aiResult.kind = "none") =>
                IsPrefix(StagesOf(steps), <<"fetch">>)
          /\ aiResult.kind \in {"rejected", "not_ok", "no_text"} =>
                /\ res.status >= 400
                /\ StagesOf(steps) = <<"fetch", "indicators", "prompt", "completion">>)
    /\ [][res.status >= 400 => (steps' = steps /\ res' = res)]_vars

\* a request of server.js whose completion call came back with a non-success status
C11_Witness ==
    /\ pc = "responded"
    /\ aiResult.kind = "not_ok"
    /\ res.status = 500
    /\ steps = <<"timeframe", "fetch", "indicators", "events", "prompt", "completion">>

\* how often a step occurs among the steps
Count(ss, step) == Cardinality({i \in 1..Len(ss) : ss[i] = step})

\* C12: a request issues at most one candle fetch and at most one completion request; once
\* it has reached the completion stage it has issued exactly one, and after a failure
\* response nothing of the request runs again.
C12_AtMostOneCall ==
    /\ Count(steps, "fetch") <= 1
    /\ Count(steps, "completion") <= 1
    /\ (pc = "completing" \/ aiResult.kind # "none") => Count(steps, "completion") = 1
    /\ res.status >= 400 => ~ENABLED Next

\* a request whose fetch was answered with an error envelope
C12_Witness ==
    /\ data.kind = "error"
    /\ res = ErrorResponse(500, Err(MSG_UPSTREAM))
    /\ Count(steps, "fetch") = 1
    /\ Count(steps, "completion") = 0

\* the candle source answered with an error envelope, or with a candles message whose list
\* is empty or absent
FetchFailed ==
    \/ data.kind = "error"
    \/ data.kind = "candles" /\ (~data.hasCandles \/ Len(data.candles) = 0)

\* C13: when the candle source answers with an error envelope, or with a candles message
\* whose list is empty or absent, the request ends with a failure response, and neither the
\* indicators are computed nor the completion call is made.
C13_EmptyFetchFails ==
    FetchFailed =>
        /\ pc # "resolved" => res.status >= 400
        /\ \A i \in 1..Len(steps) : steps[i] \notin {"indicators", "completion"}

\* C14: whatever order the candle source delivers the candles in, the candles handed to the
\* indicator computation and those returned as marketData.candles are ordered by
\* non-decreasing epoch.
C14_CandlesInEpochOrder ==
    /\ (\E i \in 1..Len(steps) : steps[i] = "indicators") =>
          \A i \in 1..(Len(candles) - 1) : candles[i].epoch <= candles[i + 1].epoch
    /\ res.marketData.present =>
          \A i \in 1..(Len(res.marketData.candles) - 1) :
              res.marketData.candles[i].time <= res.marketData.candles[i + 1].time

\* the number a string of decimal digits writes
RECURSIVE Decimal(_)
Decimal(ds) ==
    IF ds = <<>> THEN 0
    ELSE 10 * Decimal(SubSeq(ds, 1, Len(ds) - 1)) + DigitValue(ds[Len(ds)])

\* the reference mapping of a label: its digits times the seconds of its unit letter, 60
\* when the last character is no unit
ReferenceSeconds(chars) ==
    LET last == chars[Len(chars)]
        value == Decimal(SubSeq(chars, 1, Len(chars) - 1))
    IN  CASE last \in {"m", "M"} -> value * 60
          [] last \in {"h", "H"} -> value * 3600
          [] last \in {"d", "D"} -> value * 86400
          [] OTHER -> 60

\* C15: on a label of one or more digits followed by one letter getTimeframeInSeconds
\* returns value*60 for m, value*3600 for h and value*86400 for d, in either case of the
\* letter, and 60 for any other last character or a label without a unit letter.
C15_TimeframeMapping ==
    (tfPc = "done" /\ Len(tfLabel.chars) > 0 /\ tfLabel.chars[1] \in Digits) =>
        /\ ~tfOut.threw
        /\ tfOut.value = JsNum(ReferenceSeconds(tfLabel.chars))

\* '15H' converted to 54000 seconds
C15_Witness ==
    /\ tfPc = "done"
    /\ tfLabel = Str(<<"1", "5", "H">>)
    /\ tfOut.value = JsNum(54000)

\* calculateIndicators has run for the request (server.js and part_000 call it) and the
\* request has gone on to the events lookup or to the completion
IndicatorsComputed ==
    /\ variant \in {"server_js", "part_000"}
    /\ pc \in {"events", "completing"} \/ (pc = "crashed" /\ events.kind # "none")

\* C16: calculateIndicators on a candle sequence of length >= 1 that is shorter than the
\* period of an indicator returns an empty series for that indicator without throwing, and
\* the request goes on to its next stage instead of failing.
C16_ShortSeriesEmpty ==
    /\ (variant \in {"server_js", "part_000"} /\ pc # "resolved") =>
          /\ IndicatorsComputed
          /\ res = NoResponse
    /\ IndicatorsComputed =>
          /\ Len(candles) < SMA50_PERIOD => Len(indicators.sma50) = 0
          /\ Len(candles) < BB_PERIOD => Len(indicators.bollingerBands) = 0
          /\ (variant = "server_js" /\ Len(candles) < RSI_PERIOD) => Len(indicators.rsi) = 0
          /\ (variant = "server_js" /\ Len(candles) < MACD_SLOW_PERIOD) =>
                Len(indicators.macd) = 0

\* 30 candles in server.js: no SMA(50) value yet, the Bollinger series has its 11 values
C16_Witness ==
    /\ variant = "server_js"
    /\ pc = "events"
    /\ Len(candles) = 30
    /\ Len(indicators.sma50) = 0
    /\ Len(indicators.bollingerBands) = 11

\* C17: when an indicator series is empty the part_000 prompt renders the indicator as
\* 'N/A' (SMA(50) and the upper, middle and lower Bollinger values), never as 'undefined'.
C17_EmptyRenderedAsNA ==
    (variant = "part_000" /\ prompt.built) =>
        /\ Len(indicators.sma50) = 0 => prompt.sma50.text = "N/A"
        /\ Len(indicators.bollingerBands) = 0 =>
              /\ prompt.upper.text = "N/A"
              /\ prompt.middle.text = "N/A"
              /\ prompt.lower.text = "N/A"

\* the candle entries a prompt carries, and the candle field an entry is made of
PromptEntries ==
    CASE variant = "server_js" -> [i \in 1..Len(prompt.recentCandles) |-> prompt.recentCandles[i].t]
      [] variant = "part_000" -> prompt.last50Closes
      [] OTHER -> [i \in 1..Len(prompt.data) |-> prompt.data[i].epoch]
EntryOf(c) == IF variant = "part_000" THEN c.close ELSE c.epoch

\* C18: the prompt carries a tail slice of the fetched candles of at most 200 entries,
\* whatever number of candles the candle source returned.
C18_PromptTailBounded ==
    prompt.built =>
        LET k == Len(PromptEntries)
        IN  /\ k <= 200
            /\ k <= Len(candles)
            /\ \A i \in 1..k : PromptEntries[i] = EntryOf(candles[Len(candles) - k + i])

\* the messages of the dedicated invalid-response-structure error
InvalidStructureMessages == {MSG_INVALID_000, MSG_INVALID_001}

\* C19: when the completion envelope lacks candidates, its first candidate, content, parts,
\* the first part or text, the request ends with a failure response whose error is the
\* dedicated invalid-response-structure error, different from every extraction error;
\* extraction is not attempted and no exception escapes the handler.
C19_MalformedEnvelopeDedicatedError ==
    aiResult.kind = "no_text" =>
        /\ pc = "responded"
        /\ res.status >= 400
        /\ res.error.msg \in InvalidStructureMessages
        /\ \A t \in CompletionTexts :
              (t # <<>> /\ ExtractionResponse(variant, t, candles).status >= 400) =>
                  ExtractionResponse(variant, t, candles).error # res.error
        /\ ~parseCall.called
        /\ \A i \in 1..Len(steps) : steps[i] # "extract"

\* the request is over: answered, or left without an answer
Ended == pc \in {"responded", "hung", "crashed", "unhandled"}

\* an error was raised in a stage of the request: the conversion of the timeframe threw, the
\* fetch failed, the events lookup reported an error, the completion call was rejected,
\* came back with a non-success status or a malformed envelope, or the extraction threw
ErrorRaised ==
    \/ pc = "unhandled"
    \/ FetchFailed
    \/ events.kind = "error"
    \/ aiResult.kind \in {"rejected", "not_ok", "no_text"}
    \/ /\ aiResult.kind = "text"
       /\ \/ NoJsonFound(variant, text)
          \/ ~JSON_parse(jsonString(text)).ok

\* C20: every error raised in a stage of a request is surfaced as a non-success response with
\* an error message; no stage, the events lookup included, turns an upstream error into a
\* success silently.
C20_EveryErrorSurfaced ==
    (Ended /\ ErrorRaised) =>
        /\ res.status >= 400
        /\ res.error.msg # ""

\* C22: on success marketData.candles has the length and the order of the fetched candle
\* sequence, each entry with time = the candle's epoch and its open, high, low and close,
\* and comes together with the recommendation decoded from the completion text (server.js
\* and part_000, the handlers that return marketData).
C22_MarketDataMirrorsCandles ==
    (res.status = 200 /\ variant \in {"server_js", "part_000"}) =>
        /\ res.marketData.present
        /\ Len(res.marketData.candles) = Len(candles)
        /\ \A i \in 1..Len(candles) :
              /\ res.marketData.candles[i].time = candles[i].epoch
              /\ res.marketData.candles[i].open = candles[i].open
              /\ res.marketData.candles[i].high = candles[i].high
              /\ res.marketData.candles[i].low = candles[i].low
              /\ res.marketData.candles[i].close = candles[i].close
        /\ res.analysis.props = {[k |-> m.k, v |-> m.v] : m \in MemberTokens(parseCall.arg)}

\* a success of part_000 with two candles that arrived latest first
C22_Witness ==
    /\ res.status = 200
    /\ variant = "part_000"
    /\ Len(data.candles) = 2
    /\ data.candles[1].epoch > data.candles[2].epoch
    /\ Len(res.marketData.candles) = 2
    /\ res.analysis.type = "object"

\* C23: every request that passed validation eventually gets a response, as long as the
\* candle source delivers messages or an error event and the completion service answers; a
\* first message that is neither an error envelope nor a candles message does not leave the
\* fetch unsettled.
\* Stated on finite runs: a request for which no event is left to handle has its response.
C23_EventuallyAnswered ==
    ((~ENABLED Next) /\ \E i \in 1..Len(steps) : steps[i] = "fetch") => res.status # 0

\* the events of a calendar that getEconomicEvents is to keep
KeptIndexes(cal) ==
    {i \in 1..Len(cal) : cal[i].impact = "high" /\ cal[i].country \in majorEconomies}

\* C24: getEconomicEvents always settles and never rejects: on an error of the Finnhub call
\* it resolves with an empty list and the request goes on; otherwise it resolves with
\* exactly the events of impact 'high' of US, EU, GB, JP, CN and DE, in their order.
C24_EventsNeverReject ==
    (variant = "server_js" /\ events.kind # "none") =>
        /\ prompt.built
        /\ events.kind = "error" => prompt.upcomingEvents = <<>>
        /\ pc = "completing" => res = NoResponse
        /\ pc \in {"completing", "responded"}
        /\ LET cal == events.economicCalendar
               up == prompt.upcomingEvents
           IN  /\ Len(up) = Cardinality(KeptIndexes(cal))
               /\ \A i \in KeptIndexes(cal) :
                     LET k == Cardinality({j \in KeptIndexes(cal) : j <= i})
                     IN  /\ up[k].event = cal[i].event
                         /\ up[k].country = cal[i].country
                         /\ up[k].time = cal[i].time

\* C27: calculateIndicators returns an empty series for an indicator only below the period
\* of that indicator: SMA(50) is empty if and only if N < 50, Bollinger(20) if and only if
\* N < 20.
C27_EmptyOnlyBelowOwnPeriod ==
    IndicatorsComputed =>
        /\ Len(indicators.sma50) = 0 <=> Len(candles) < SMA50_PERIOD
        /\ Len(indicators.bollingerBands) = 0 <=> Len(candles) < BB_PERIOD

\* C28: for every timeframe that passes validation (any non-empty string)
\* getTimeframeInSeconds returns a positive integer, never NaN, zero or a negative number.
C28_GranularityPositive ==
    (tfPc = "done" /\ ~Falsy(tfLabel)) =>
        /\ ~tfOut.threw
        /\ tfOut.value.type = "number"
        /\ tfOut.value # JsNaN
        /\ tfOut.value.num > 0

\* the response of a request that is alone on the server, from its own fields and the
\* replies to its own calls
ResponseAlone(h) ==
    IF Falsy(h.req.asset) \/ Falsy(h.req.timeframe) THEN ErrorResponse(400, Err(MSG_REQUIRED))
    ELSE IF h.data.kind = "error" THEN ErrorResponse(500, Err(MSG_UPSTREAM))
    ELSE IF Len(h.data.candles) = 0 THEN ErrorResponse(500, Err(MSG_NO_CANDLES_SERVER))
    ELSE IF h.aiResult.kind = "rejected" THEN ErrorResponse(500, Err(MSG_TRANSPORT))
    ELSE ExtractionResponse("server_js", h.aiResult.text, h.data.candles)

HasRelevantSymbols(dataMsg) ==
    /\ dataMsg.kind = "active_symbols"
    /\ dataMsg.hasList
    /\ \E i \in 1..Len(dataMsg.active_symbols) : dataMsg.active_symbols[i].market \in RelevantMarkets

\* C25: after an active_symbols message with at least one forex, indices or
\* synthetic_index symbol the dropdown holds exactly those symbols, sorted by display name,
\* the dropdown and the Analyze button are enabled, and the promise of loadAssets is
\* resolved.
C25_AssetsLoaded ==
    \A k \in 1..Len(handled) :
        HasRelevantSymbols(handled[k]) =>
            LET list == handled[k].active_symbols
                kept == {i \in 1..Len(list) : list[i].market \in RelevantMarkets}
                opts == assetSelect.options
            IN  /\ Len(opts) = Cardinality(kept)
                /\ \A i \in kept : \E o \in 1..Len(opts) :
                      opts[o] = [value |-> list[i].symbol, textContent |-> list[i].display_name]
                /\ \A o \in 1..(Len(opts) - 1) :
                      localeCompare(opts[o].textContent, opts[o + 1].textContent) <= 0
                /\ ~assetSelect.disabled
                /\ ~analyzeBtn.disabled
                /\ loadPromise = "resolved"

\* C26: the timeout outcome ('Asset loading timed out...', 'Loading timed out') is on the
\* page only if no error reply and no active_symbols reply was handled before: once one
\* was, the timer changes neither the dropdown text nor the message.
C26_TimeoutOnlyWithoutReply ==
    (assetSelect.text = "Loading timed out" \/ messageBox = "Asset loading timed out. Please refresh and try again.") =>
        \A k \in 1..Len(handled) : handled[k].kind \notin {"error", "active_symbols"}

\* C29: whenever no request is in flight after at least one click with an asset selected,
\* the loader is hidden and exactly one of the results panel and the error message is
\* visible, whatever the number of clicks and the order of the responses.
C29_OneOutcomeVisible ==
    (clicks >= 1 /\ pending = {}) =>
        /\ loader.hidden
        /\ resultsContent.hidden # errorMessage.hidden

\* C30: the recommendation and the chart on the page belong to the most recent click: once
\* that click's response has come and was a success, the results shown are its own, and
\* the late response of an earlier click never overwrites them.
C30_LatestClickShown ==
    (clicks >= 1 /\ clicks \notin pending /\ errorMessage.of # clicks /\ ~resultsContent.hidden) =>
        /\ shown.analysis = clicks
        /\ shown.chart \in {0, clicks}
====
